---- MODULE Spec2Model ----
(***************************************************************************)
(* FlukaQueueSub: the three job launchers (launch_jobs_htcondor.py,        *)
(* launch_jobs_lsf.py, scripts/launch_jobs_ts.py) as one state machine.    *)
(*                                                                         *)
(* A name (one path component) is a sequence of string tokens, so that     *)
(* f-string formatting ("{base}_{counter}", "job_{i:04d}") is modelled as  *)
(* concatenation of formatted pieces.  A path is [abs, comps]; the         *)
(* filesystem is the set of absolute component sequences that exist, and   *)
(* `files` gives the content (a sequence of lines) of the regular files.   *)
(***************************************************************************)
EXTENDS Integers, Sequences, FiniteSets, TLC

VARIABLES
    backend,        \* "htcondor" | "lsf" | "ts": which script runs
    args,           \* the parsed command line (argparse namespace)
    pc,             \* position in __main__ / launch_jobs
    exit_code,      \* argument of exit(), -1 while running
    cwd,            \* process working directory (absolute component sequence)
    fs,             \* existing filesystem entries (absolute component sequences)
    files,          \* content of regular files: path -> sequence of lines
    directory,      \* launch_jobs: new_directory_name / directory
    counter,        \* launch_jobs: counter
    i,              \* launch_jobs: loop index
    new_input,      \* launch_jobs: new_input (file name returned by generate_input)
    fluka_command,  \* generate_sh / launch_jobs (ts): fluka_command
    out,            \* lines emitted through logging.info / print
    calls,          \* submission processes started and scheduler API calls made
    pre,            \* history: filesystem entries before the run
    iter_cwd        \* history: working directory when the current iteration began

vars == <<backend, args, pc, exit_code, cwd, fs, files, directory, counter, i,
          new_input, fluka_command, out, calls, pre, iter_cwd>>

-----------------------------------------------------------------------------
(* Bounds of the model *)

MaxJobs == 2
MaxSuffix == 2
MaxLines == 3
MaxDayDigits == 2

(* Program constants *)

SeedMax == 90000000
PadWidth == 4
SeedWidth == 10
MaxTimeSeconds == 345600

-----------------------------------------------------------------------------
(* Formatting *)

DigitChar == <<"0", "1", "2", "3", "4", "5", "6", "7", "8", "9">>

RECURSIVE Dec(_)
Dec(n) ==
    IF n < 10 THEN <<DigitChar[n + 1]>>
    ELSE Append(Dec(n \div 10), DigitChar[(n % 10) + 1])

RECURSIVE PadLeft(_, _, _)
PadLeft(ds, w, fill) ==
    IF Len(ds) >= w THEN ds ELSE PadLeft(<<fill>> \o ds, w, fill)

Pad04d(n) == PadLeft(Dec(n), PadWidth, "0")

DigitValue(c) == CHOOSE d \in 0..9 : DigitChar[d + 1] = c

IsDigit(c) == \E d \in 0..9 : DigitChar[d + 1] = c

RECURSIVE ParseInt(_)
ParseInt(ds) ==
    IF ds = <<>> THEN 0
    ELSE 10 * ParseInt(SubSeq(ds, 1, Len(ds) - 1)) + DigitValue(ds[Len(ds)])

-----------------------------------------------------------------------------
(* Paths *)

Rel(comps) == [abs |-> FALSE, comps |-> comps]
Abs(comps) == [abs |-> TRUE, comps |-> comps]

NoDir == Rel(<<>>)

DotDot == <<"..">>

RECURSIVE Normalize(_, _)
Normalize(done, rest) ==
    IF rest = <<>> THEN done
    ELSE IF Head(rest) = DotDot
         THEN Normalize(IF done = <<>> THEN <<>> ELSE SubSeq(done, 1, Len(done) - 1),
                        Tail(rest))
         ELSE Normalize(Append(done, Head(rest)), Tail(rest))

Resolve(wd, p) == IF p.abs THEN Normalize(<<>>, p.comps) ELSE Normalize(wd, p.comps)

Prefixes(q) == {SubSeq(q, 1, k) : k \in 0..Len(q)}

basename(p) == p.comps[Len(p.comps)]

ExtTokens == {".inp", ".txt"}

splitext0(name) ==
    IF Len(name) > 1 /\ name[Len(name)] \in ExtTokens
    THEN SubSeq(name, 1, Len(name) - 1) ELSE name

endswith_inp(p) == basename(p)[Len(basename(p))] = ".inp"

join(dir, name) == [abs |-> dir.abs, comps |-> Append(dir.comps, name)]

exists(p) == Resolve(cwd, p) \in fs

-----------------------------------------------------------------------------
(* Strings compared the way Python compares str: by code point, left to right *)

Ord(c) == IF IsDigit(c) THEN 48 + DigitValue(c) ELSE IF c = "-" THEN 45 ELSE 58

RECURSIVE StrGreater(_, _)
StrGreater(a, b) ==
    IF a = <<>> THEN FALSE
    ELSE IF b = <<>> THEN TRUE
    ELSE IF Ord(Head(a)) # Ord(Head(b)) THEN Ord(Head(a)) > Ord(Head(b))
    ELSE StrGreater(Tail(a), Tail(b))

(* launch_jobs_lsf.py: max_time = "4-00:00:00" *)
LsfMaxTime == <<"4", "-", "0", "0", ":", "0", "0", ":", "0", "0">>

(* launch_jobs_lsf.py: default of --time *)
LsfDefaultTime == <<"1", "-", "0", "0", ":", "0", "0", ":", "0", "0">>

(* launch_jobs_htcondor.py: default of --time *)
HtcDefaultTime == 86400

TimeExceeds(b, t) ==
    IF b = "htcondor" THEN t > MaxTimeSeconds ELSE StrGreater(t, LsfMaxTime)

-----------------------------------------------------------------------------
(* The command line *)

Backends == {"htcondor", "lsf", "ts"}

FLUKA_PATH == "/opt/fluka/bin"

Start == << <<"work">> >>

InpName == <<"run", ".inp">>
TxtName == <<"run", ".txt">>

InputFiles == {Rel(<<InpName>>), Abs(Start \o <<InpName>>)}

OutputDirs ==
    {NoDir, Rel(<< <<"out">> >>), Rel(<< <<"out">>, <<"sim">> >>),
     Abs(<< <<"data">>, <<"out">> >>)}

CustomExes == {"None", "none", "/opt/custom/flukahp"}

TemplateFile == Start \o <<InpName>>

(* Lines of an input deck: token sequences *)
new_randomiz(seed) ==
    <<"RANDOMIZ", "          ", "1.">> \o PadLeft(Dec(seed), SeedWidth, " ") \o <<"\n">>

TitleLine == <<"TITLE", "\n">>
CommentLine == <<"*", "RANDOMIZ", "card", "\n">>
StopLine == <<"STOP">>
OldSeedLine == new_randomiz(0)

DeckLines == {TitleLine, CommentLine, StopLine, OldSeedLine}

Decks == UNION {[1..k -> DeckLines] : k \in 0..MaxLines}

DefaultDeck == <<TitleLine, OldSeedLine, CommentLine>>

DefaultTime(b) ==
    IF b = "htcondor" THEN HtcDefaultTime
    ELSE IF b = "lsf" THEN LsfDefaultTime ELSE <<>>

stripped_name == splitext0(basename(args.input))

base_directory_name ==
    IF args.output_dir = NoDir THEN Rel(<<stripped_name>>) ELSE args.output_dir

SuffixName(base, k) ==
    [abs |-> base.abs,
     comps |-> [base.comps EXCEPT ![Len(base.comps)] = @ \o <<"_">> \o Dec(k)]]

Candidate(base, k) == IF k = 0 THEN base ELSE SuffixName(base, k)

BaseOf(input, output_dir) ==
    IF output_dir = NoDir THEN Rel(<<splitext0(basename(input))>>) ELSE output_dir

EmptyFiles == [p \in {} |-> <<>>]

(* The state in which the script starts: `taken` says which of the names     *)
(* P, P_1, .. P_MaxSuffix already exist, `deck` is the template's content    *)
(* (or the template is missing).                                             *)
InitState(b, a, taken, hasTemplate, deck, pc0) ==
    LET entries == {Resolve(Start, Candidate(BaseOf(a.input, a.output_dir), k)) : k \in taken}
        initial == UNION {Prefixes(q) : q \in entries \cup {Start}}
                   \cup (IF hasTemplate THEN {TemplateFile} ELSE {})
    IN  /\ backend = b
        /\ args = a
        /\ pc = pc0
        /\ exit_code = -1
        /\ cwd = Start
        /\ fs = initial
        /\ files = IF hasTemplate THEN TemplateFile :> deck ELSE EmptyFiles
        /\ directory = NoDir
        /\ counter = 0
        /\ i = 0
        /\ new_input = <<>>
        /\ fluka_command = <<>>
        /\ out = <<>>
        /\ calls = <<>>
        /\ pre = initial
        /\ iter_cwd = Start

Arguments(input, n, exe, time, dry, outdir) ==
    [input |-> input, njobs |-> n, custom_exe |-> exe, time |-> time,
     dry_run |-> dry, output_dir |-> outdir]

(* launch_jobs called with a validated configuration *)
Init ==
    \E b \in Backends, input \in InputFiles, n \in 1..MaxJobs, exe \in CustomExes,
       dry \in BOOLEAN, outdir \in OutputDirs, taken \in SUBSET (0..MaxSuffix),
       hasTemplate \in BOOLEAN :
        InitState(b, Arguments(input, n, exe, DefaultTime(b), dry, outdir),
                  taken, hasTemplate, DefaultDeck, "launch_jobs")

-----------------------------------------------------------------------------
(* launch_jobs: directory allocation *)

DryRunIgnored == FALSE

DryRun == args.dry_run

EnterLaunch ==
    /\ pc = "launch_jobs"
    /\ directory' = base_directory_name
    /\ counter' = 1
    /\ pc' = "alloc"
    /\ UNCHANGED <<backend, args, exit_code, cwd, fs, files, i, new_input,
                   fluka_command, out, calls, pre, iter_cwd>>

AllocProbeSkipsOne ==
    /\ pc = "alloc"
    /\ exists(directory)
    /\ directory' = SuffixName(base_directory_name, counter + 1)
    /\ counter' = counter + 1
    /\ UNCHANGED <<backend, args, pc, exit_code, cwd, fs, files, i, new_input,
                   fluka_command, out, calls, pre, iter_cwd>>

(* while os.path.exists(new_directory_name): next name, counter += 1 *)
AllocProbe ==
    /\ pc = "alloc"
    /\ exists(directory)
    /\ directory' = SuffixName(base_directory_name, counter)
    /\ counter' = counter + 1
    /\ UNCHANGED <<backend, args, pc, exit_code, cwd, fs, files, i, new_input,
                   fluka_command, out, calls, pre, iter_cwd>>

makedirs(p) == fs \cup Prefixes(Resolve(cwd, p))

AllocMake ==
    /\ pc = "alloc"
    /\ ~exists(directory)
    /\ fs' = makedirs(directory)
    /\ pc' = IF backend = "htcondor" THEN "schedd" ELSE "for"
    /\ UNCHANGED <<backend, args, exit_code, cwd, files, directory, counter, i,
                   new_input, fluka_command, out, calls, pre, iter_cwd>>

OpenSchedd ==
    /\ pc = "schedd"
    /\ calls' = IF ~DryRun THEN Append(calls, "Schedd") ELSE calls
    /\ pc' = "for"
    /\ UNCHANGED <<backend, args, exit_code, cwd, fs, files, directory, counter, i,
                   new_input, fluka_command, out, pre, iter_cwd>>

-----------------------------------------------------------------------------
(* launch_jobs: the per-job loop *)

ForNext ==
    /\ pc = "for"
    /\ IF i < args.njobs
       THEN /\ i' = i + 1
            /\ iter_cwd' = cwd
            /\ pc' = "makedirs"
       ELSE /\ pc' = "done"
            /\ UNCHANGED <<i, iter_cwd>>
    /\ UNCHANGED <<backend, args, exit_code, cwd, fs, files, directory, counter,
                   new_input, fluka_command, out, calls, pre>>

job_name == <<"job_">> \o Pad04d(i)

job_dir == join(directory, job_name)

(* os.makedirs(job_dir): FileExistsError when the leaf exists *)
MakeJobDir ==
    /\ pc = "makedirs"
    /\ IF exists(job_dir)
       THEN /\ pc' = "raised"
            /\ UNCHANGED fs
       ELSE /\ fs' = makedirs(job_dir)
            /\ pc' = "cp"
    /\ UNCHANGED <<backend, args, exit_code, cwd, files, directory, counter, i,
                   new_input, fluka_command, out, calls, pre, iter_cwd>>

(* os.system(f"cp {input_file} {job_dir}"): the exit status is discarded *)
CopyTemplate ==
    /\ pc = "cp"
    /\ LET src == Resolve(cwd, args.input)
           dst == Append(Resolve(cwd, job_dir), basename(args.input))
       IN  IF src \in DOMAIN files /\ Resolve(cwd, job_dir) \in fs
           THEN /\ files' = [q \in DOMAIN files \cup {dst} |->
                                IF q = dst THEN files[src] ELSE files[q]]
                /\ fs' = fs \cup {dst}
           ELSE UNCHANGED <<fs, files>>
    /\ pc' = "chdir"
    /\ UNCHANGED <<backend, args, exit_code, cwd, directory, counter, i,
                   new_input, fluka_command, out, calls, pre, iter_cwd>>

(* os.chdir(job_dir): FileNotFoundError when it is no directory *)
Chdir ==
    /\ pc = "chdir"
    /\ IF exists(job_dir) /\ Resolve(cwd, job_dir) \notin DOMAIN files
       THEN /\ cwd' = Resolve(cwd, job_dir)
            /\ pc' = "generate_input"
       ELSE /\ pc' = "raised"
            /\ UNCHANGED cwd
    /\ UNCHANGED <<backend, args, exit_code, fs, files, directory, counter, i,
                   new_input, fluka_command, out, calls, pre, iter_cwd>>

(* random.randint(a, b): any integer of a..b; the draws tried are the ends of   *)
(* the range 1..SeedMax, their outer neighbours and the middle                  *)
Draws == {0, 1, SeedMax \div 2, SeedMax, SeedMax + 1}

randint_low(a, b) == {s \in Draws : a - 1 <= s /\ s <= b}

randint(a, b) == {s \in Draws : a <= s /\ s <= b}

HasMarker(line) == \E k \in 1..Len(line) : line[k] = "RANDOMIZ"

FirstMarker(data) ==
    IF \E k \in 1..Len(data) : HasMarker(data[k])
    THEN CHOOSE k \in 1..Len(data) :
            HasMarker(data[k]) /\ \A j \in 1..(k - 1) : ~HasMarker(data[j])
    ELSE 0

RewriteAll(data, line) ==
    [k \in 1..Len(data) |-> IF HasMarker(data[k]) THEN line ELSE data[k]]

(* for index, line in enumerate(data): if "RANDOMIZ" in line: replace; break *)
Rewrite(data, line) ==
    [k \in 1..Len(data) |-> IF k = FirstMarker(data) THEN line ELSE data[k]]

InpFile(base) == base \o <<".inp">>

IterFile(base, iteration) == base \o <<"_">> \o Pad04d(iteration) \o <<".inp">>

(* generate_input(stripped_name, i) *)
GenerateInput ==
    /\ pc = "generate_input"
    /\ LET old == Append(cwd, InpFile(stripped_name))
           file_name == IterFile(stripped_name, i)
           new == Append(cwd, file_name)
       IN  IF old \notin DOMAIN files
           THEN /\ pc' = "raised"
                /\ UNCHANGED <<fs, files, new_input>>
           ELSE \E seed \in randint(1, SeedMax) :
                /\ files' = [q \in (DOMAIN files \ {old}) \cup {new} |->
                                IF q = new THEN Rewrite(files[old], new_randomiz(seed))
                                ELSE files[q]]
                /\ fs' = (fs \ {old}) \cup {new}
                /\ new_input' = file_name
                /\ pc' = "generate_sh"
    /\ UNCHANGED <<backend, args, exit_code, cwd, directory, counter, i,
                   fluka_command, out, calls, pre, iter_cwd>>

FlukaCommandAnyCase(prog, custom_exe) ==
    IF custom_exe \in {"None", "none"} THEN <<prog, "-M", "1">>
    ELSE <<prog, "-M", "1", "-e", custom_exe>>

FlukaCommand(prog, custom_exe) ==
    IF custom_exe = "None" THEN <<prog, "-M", "1">>
    ELSE <<prog, "-M", "1", "-e", custom_exe>>

(* The $-placeholders of SCRIPT_TEMPLATE and the keywords given to substitute() *)
Placeholders(b) ==
    IF b = "htcondor" THEN {"fluka_command", "input"}
    ELSE {"input", "ntasks", "mem", "time", "pog_dir", "queue", "fluka_command"}

SubstituteKeys(b) ==
    IF b = "htcondor" THEN {"fluka_command", "input"}
    ELSE {"input", "fluka_command", "pog_dir", "mem", "ntasks", "time"}

script_name == job_name \o <<".sh">>

ScriptText(b, command, input) ==
    IF b = "htcondor"
    THEN << <<"#!/bin/env bash">>, <<". setupViews.sh">>, command \o input >>
    ELSE << <<"#!/bin/bash">>, <<"#BSUB">>, <<"cd">>, command \o input >>

(* generate_sh(...) for htcondor and lsf (Template.substitute raises KeyError  *)
(* for a placeholder without a keyword); the fluka_command line of ts          *)
GenerateSh ==
    /\ pc = "generate_sh"
    /\ IF backend = "ts"
       THEN /\ fluka_command' = FlukaCommand("rfluka", args.custom_exe) \o new_input
            /\ pc' = "submit"
            /\ UNCHANGED <<fs, files>>
       ELSE /\ fluka_command' = FlukaCommand(FLUKA_PATH, args.custom_exe)
            /\ IF Placeholders(backend) \subseteq SubstituteKeys(backend)
               THEN LET sh == Append(cwd, script_name)
                    IN  /\ files' = [q \in DOMAIN files \cup {sh} |->
                                        IF q = sh
                                        THEN ScriptText(backend, fluka_command', new_input)
                                        ELSE files[q]]
                        /\ fs' = fs \cup {sh}
                        /\ pc' = "submit"
               ELSE /\ pc' = "raised"
                    /\ UNCHANGED <<fs, files>>
    /\ UNCHANGED <<backend, args, exit_code, cwd, directory, counter, i,
                   new_input, out, calls, pre, iter_cwd>>

Line(kind, job, text) == [kind |-> kind, job |-> job, text |-> text]

(* What the external submission command answers *)
Completed(rc) ==
    [returncode |-> rc,
     stdout |-> IF rc = 0 THEN <<"queued">> ELSE <<>>,
     stderr |-> IF rc = 0 THEN <<>> ELSE <<"refused">>]

DryText ==
    IF backend = "htcondor" THEN <<"condor_submit">> \o script_name \o new_input
    ELSE IF backend = "lsf" THEN <<"bsub", "<", "./">> \o job_name \o <<".sh">>
    ELSE <<"ts">> \o fluka_command

(* The index each script prints in its report of a submission *)
ReportedJob == IF backend = "lsf" THEN args.njobs ELSE i

(* if dry_run: logging.info(...) else: submit and report *)
Submit ==
    /\ pc = "submit"
    /\ IF DryRun
       THEN /\ out' = Append(out, Line("dry", 0, DryText))
            /\ pc' = "restore"
            /\ UNCHANGED calls
       ELSE IF backend = "htcondor"
       THEN \E ok \in BOOLEAN :
            /\ calls' = Append(calls, "submit")
            /\ IF ok
               THEN /\ out' = Append(out, Line("success", 0, <<"cluster">>))
                    /\ pc' = "restore"
               ELSE /\ pc' = "raised"
                    /\ UNCHANGED out
       ELSE \E rc \in {0, 1} :
            LET result == Completed(rc)
            IN  /\ calls' = Append(calls, IF backend = "lsf" THEN "bsub" ELSE "ts")
                /\ out' = Append(out,
                            IF result.returncode = 0
                            THEN Line("success", ReportedJob, result.stdout)
                            ELSE Line("failure", ReportedJob, result.stderr))
                /\ pc' = "restore"
    /\ UNCHANGED <<backend, args, exit_code, cwd, fs, files, directory, counter, i,
                   new_input, fluka_command, pre, iter_cwd>>

(* os.chdir("../..") *)
Restore ==
    /\ pc = "restore"
    /\ cwd' = Resolve(cwd, Rel(<<DotDot, DotDot>>))
    /\ pc' = "for"
    /\ UNCHANGED <<backend, args, exit_code, fs, files, directory, counter, i,
                   new_input, fluka_command, out, calls, pre, iter_cwd>>

-----------------------------------------------------------------------------
(* __main__: validation of the command line, up to the call of launch_jobs *)

DayDigits == {"0", "1", "4", "5"}

Hours == {<<"0", "0">>, <<"0", "1">>}

(* --time values tried for lsf, of the form D-HH:MM:SS *)
LsfTimes ==
    {days \o <<"-">> \o hh \o <<":", "0", "0", ":", "0", "0">> :
        days \in UNION {[1..k -> DayDigits] : k \in 1..MaxDayDigits}, hh \in Hours}

(* --time values tried for htcondor, in seconds *)
HtcTimes ==
    {0, HtcDefaultTime, MaxTimeSeconds - 1, MaxTimeSeconds, MaxTimeSeconds + 1,
     2 * MaxTimeSeconds}

Times(b) == IF b = "htcondor" THEN HtcTimes ELSE IF b = "lsf" THEN LsfTimes ELSE {<<>>}

InitMain ==
    \E b \in Backends, input \in InputFiles \cup {Rel(<<TxtName>>)},
       n \in 1..MaxJobs, dry \in BOOLEAN, taken \in SUBSET (0..MaxSuffix) :
        \E time \in Times(b) :
            InitState(b, Arguments(input, n, "None", time, dry, NoDir),
                      taken, TRUE, DefaultDeck, "main")

Exit(code) ==
    /\ pc' = "exit"
    /\ exit_code' = code

(* if not args.input.endswith(".inp"): exit(1) *)
CheckExtension ==
    /\ pc = "main"
    /\ IF ~endswith_inp(args.input)
       THEN Exit(1)
       ELSE /\ pc' = "fluka_config"
            /\ UNCHANGED exit_code
    /\ UNCHANGED <<backend, args, cwd, fs, files, directory, counter, i, new_input,
                   fluka_command, out, calls, pre, iter_cwd>>

(* subprocess.check_output(["fluka-config", ...]); CalledProcessError: exit(1) *)
FlukaConfig ==
    /\ pc = "fluka_config"
    /\ \E found \in BOOLEAN :
        IF ~found
        THEN Exit(1)
        ELSE /\ pc' = IF backend = "ts" THEN "confirm" ELSE "validate_time"
             /\ UNCHANGED exit_code
    /\ UNCHANGED <<backend, args, cwd, fs, files, directory, counter, i, new_input,
                   fluka_command, out, calls, pre, iter_cwd>>

(* if args.time > max_time: exit(1) *)
ValidateTime ==
    /\ pc = "validate_time"
    /\ IF TimeExceeds(backend, args.time)
       THEN Exit(1)
       ELSE /\ pc' = "confirm"
            /\ UNCHANGED exit_code
    /\ UNCHANGED <<backend, args, cwd, fs, files, directory, counter, i, new_input,
                   fluka_command, out, calls, pre, iter_cwd>>

(* confirmation = input(...); anything but yes/y: exit() *)
Confirm ==
    /\ pc = "confirm"
    /\ \E yes \in BOOLEAN :
        IF ~yes
        THEN Exit(0)
        ELSE /\ pc' = "launch_jobs"
             /\ UNCHANGED exit_code
    /\ UNCHANGED <<backend, args, cwd, fs, files, directory, counter, i, new_input,
                   fluka_command, out, calls, pre, iter_cwd>>

NextMain ==
    \/ CheckExtension
    \/ FlukaConfig
    \/ ValidateTime
    \/ Confirm
    \/ EnterLaunch
    \/ AllocProbe
    \/ AllocMake

SpecMain == InitMain /\ [][NextMain]_vars

-----------------------------------------------------------------------------
(* generate_input on its own: called in a job directory that holds (or lacks) *)
(* a private copy of a template of any content                                *)

InitSeed ==
    \E b \in Backends, deck \in Decks, it \in 1..MaxJobs, copied \in BOOLEAN :
        LET root == Append(Start, <<"run">>)
            jobd == Append(root, <<"job_">> \o Pad04d(it))
            copy == Append(jobd, InpName)
            dirs == Prefixes(jobd) \cup {TemplateFile}
        IN  /\ backend = b
            /\ args = Arguments(Rel(<<InpName>>), MaxJobs, "None", DefaultTime(b), TRUE, NoDir)
            /\ pc = "generate_input"
            /\ exit_code = -1
            /\ cwd = jobd
            /\ fs = IF copied THEN dirs \cup {copy} ELSE dirs
            /\ files = IF copied THEN (TemplateFile :> deck) @@ (copy :> deck)
                       ELSE TemplateFile :> deck
            /\ directory = Rel(<< <<"run">> >>)
            /\ counter = 1
            /\ i = it
            /\ new_input = <<>>
            /\ fluka_command = <<>>
            /\ out = <<>>
            /\ calls = <<>>
            /\ pre = Prefixes(Start) \cup {TemplateFile}
            /\ iter_cwd = Start

NextSeed == GenerateInput

SpecSeed == InitSeed /\ [][NextSeed]_vars

-----------------------------------------------------------------------------

Next ==
    \/ EnterLaunch
    \/ AllocProbe
    \/ AllocMake
    \/ OpenSchedd
    \/ ForNext
    \/ MakeJobDir
    \/ CopyTemplate
    \/ Chdir
    \/ GenerateInput
    \/ GenerateSh
    \/ Submit
    \/ Restore

Spec == Init /\ [][Next]_vars

-----------------------------------------------------------------------------
(* Properties of launch_jobs *)

Allocated == pc \notin {"main", "fluka_config", "validate_time", "confirm", "exit",
                        "launch_jobs", "alloc"}

(* The root as an absolute path: it is created while cwd is still Start *)
Root == Resolve(Start, directory)

(* C1: a failure in one job's seed mutation or submission is logged and never  *)
(* aborts the batch: the jobs after it are still processed.  Stated here in    *)
(* its weakest form: an exception raised inside the loop can end launch_jobs   *)
(* only when no job is left to process.                                        *)
C1_BatchNeverAborted ==
    (pc = "raised" /\ i >= 1) => i = args.njobs

(* C2: after every iteration of the loop the working directory is the one     *)
(* the iteration started in, whatever the output root is.                      *)
C2_CwdRestored ==
    (pc = "for" /\ i >= 1) => cwd = iter_cwd

JobSubdirs(root) ==
    {q \in fs : /\ Len(q) = Len(root) + 1
                /\ SubSeq(q, 1, Len(root)) = root
                /\ q \notin DOMAIN files}

(* C3: when launch_jobs has finished, the allocated root holds exactly N job  *)
(* subdirectories, job_<i:04d> for i in 1..N, pairwise different.             *)
C3_ExactlyNJobDirs ==
    pc = "done" =>
        LET expected == {Append(Root, <<"job_">> \o Pad04d(j)) : j \in 1..args.njobs}
        IN  /\ Cardinality(expected) = args.njobs
            /\ JobSubdirs(Root) = expected

Taken(k) == Resolve(Start, Candidate(base_directory_name, k)) \in pre

(* The name the allocation has to pick, read off the entries that existed     *)
(* before the run: P, or P_k for the least k >= 1 with P_k free.              *)
ExpectedRoot ==
    IF ~Taken(0) THEN base_directory_name
    ELSE SuffixName(base_directory_name,
                    CHOOSE k \in 1..(MaxSuffix + 1) :
                        ~Taken(k) /\ \A j \in 1..(k - 1) : Taken(j))

(* C4: the created root is P when P is free, else P_k for the smallest k >= 1 *)
(* with P_k free; it did not exist before the run, and every entry that did   *)
(* is still there with its content.                                            *)
C4_AllocatesFirstFreeName ==
    /\ pre \subseteq fs
    /\ TemplateFile \in pre =>
          TemplateFile \in DOMAIN files /\ files[TemplateFile] = DefaultDeck
    /\ Allocated =>
          /\ directory = ExpectedRoot
          /\ Root \notin pre
          /\ Root \in fs

C4_Witness ==
    /\ Allocated
    /\ Taken(0) /\ Taken(1)
    /\ directory = SuffixName(base_directory_name, 2)
    /\ Len(base_directory_name.comps) = 2

(* Number of iterations whose submission step has been carried out *)
SubmitStepsDone ==
    IF i = 0 THEN 0
    ELSE IF pc \in {"restore", "for", "done"} THEN i ELSE i - 1

-----------------------------------------------------------------------------
(* Properties of __main__ *)

DashAt(t) == CHOOSE k \in 1..Len(t) : t[k] = "-" /\ \A j \in 1..(k - 1) : t[j] # "-"

(* The duration a D-HH:MM:SS value denotes, in seconds *)
Seconds(t) ==
    LET d == DashAt(t)
    IN  86400 * ParseInt(SubSeq(t, 1, d - 1))
        + 3600 * ParseInt(SubSeq(t, d + 1, d + 2))
        + 60 * ParseInt(SubSeq(t, d + 4, d + 5))
        + ParseInt(SubSeq(t, d + 7, d + 8))

ExceedsMaximum ==
    IF backend = "htcondor" THEN args.time > MaxTimeSeconds
    ELSE IF backend = "lsf" THEN Seconds(args.time) > Seconds(LsfMaxTime)
    ELSE FALSE

(* C6: a requested wall-time above the backend's maximum makes the run exit   *)
(* with code 1 before any directory is allocated; no such value reaches       *)
(* launch_jobs.                                                                *)
C6_TimeLimitEnforced ==
    ExceedsMaximum =>
        \/ pc \in {"main", "fluka_config", "validate_time"}
        \/ pc = "exit" /\ exit_code = 1 /\ fs = pre

-----------------------------------------------------------------------------
(* Properties of generate_input *)

Template == files[TemplateFile]

Written == files[Append(cwd, new_input)]

(* The number in the seed field of a RANDOMIZ record *)
SeedOf(line) == ParseInt(SelectSeq(SubSeq(line, 4, Len(line)), IsDigit))

SeedWritten == SeedOf(Written[FirstMarker(Template)])

Mutated == pc = "generate_sh" /\ FirstMarker(Template) # 0

(* C7 as stated: the seed written is at least 1 and strictly below 90 000 000 *)
C7_SeedBelowMax ==
    Mutated => 1 <= SeedWritten /\ SeedWritten < SeedMax

(* C7, amended: the seed written is in the closed range 1..90 000 000, and    *)
(* the record holds it in the format "RANDOMIZ          1.<seed:>10>\n"       *)
C7_SeedInClosedRange ==
    Mutated =>
        /\ 1 <= SeedWritten /\ SeedWritten <= SeedMax
        /\ Written[FirstMarker(Template)] = new_randomiz(SeedWritten)

C7_Witness ==
    Mutated /\ SeedWritten = SeedMax

(* C8: the rewritten file has as many lines as the template and differs from  *)
(* it at most in the first line that holds the marker; without a marker the   *)
(* content is the template's; in both cases <base>.inp is gone and the file   *)
(* is <base>_<iteration:04d>.inp.                                              *)
C8_OnlyFirstMarkerLineChanges ==
    pc = "generate_sh" =>
        /\ Len(Written) = Len(Template)
        /\ \A k \in 1..Len(Template) :
              k # FirstMarker(Template) => Written[k] = Template[k]
        /\ FirstMarker(Template) = 0 => Written = Template
        /\ Append(cwd, <<"run", ".inp">>) \notin DOMAIN files
        /\ new_input = <<"run", "_">> \o Pad04d(i) \o <<".inp">>
        /\ Append(cwd, new_input) \in fs

C8_Witness ==
    /\ pc = "generate_sh"
    /\ \E k, l \in 1..Len(Template) :
          /\ k < l
          /\ HasMarker(Template[k]) /\ HasMarker(Template[l])
          /\ Template[l] = OldSeedLine
          /\ Written[k] # Template[k]
          /\ Written[l] = OldSeedLine

-----------------------------------------------------------------------------
(* Properties of the launch command and of the submission reports *)

Flags(cmd) == {k \in 1..Len(cmd) : cmd[k] = "-e"}

(* C9 as stated: "None" and "none" both stand for no custom executable *)
C9_BothSpellingsAreSentinel ==
    fluka_command # <<>> =>
        IF args.custom_exe \in {"None", "none"}
        THEN Flags(fluka_command) = {}
        ELSE \E k \in Flags(fluka_command) : fluka_command[k + 1] = args.custom_exe

(* C9, amended: only the exact value "None" is the sentinel (no -e flag);     *)
(* every other value, "none" included, gives one -e flag followed by exactly  *)
(* that value.                                                                 *)
C9_OnlyNoneIsSentinel ==
    fluka_command # <<>> =>
        IF args.custom_exe = "None"
        THEN Flags(fluka_command) = {}
        ELSE /\ Cardinality(Flags(fluka_command)) = 1
             /\ \A k \in Flags(fluka_command) :
                   k < Len(fluka_command) /\ fluka_command[k + 1] = args.custom_exe

C9_Witness ==
    /\ args.custom_exe = "none"
    /\ Flags(fluka_command) # {}
    /\ backend = "ts"

Reports(j) ==
    {k \in 1..Len(out) : out[k].kind \in {"success", "failure"} /\ out[k].job = j}

(* C10: in a live run every job's submission outcome is reported exactly      *)
(* once, under the job's own index, with the backend's message.               *)
C10_EachOutcomeReportedOnce ==
    (pc = "done" /\ ~args.dry_run) =>
        \A j \in 1..args.njobs :
            /\ Cardinality(Reports(j)) = 1
            /\ \A k \in Reports(j) : out[k].text # <<>>

-----------------------------------------------------------------------------
(* Order of the steps of launch_jobs *)

(* The step that follows each step of one job *)
StepAfter ==
    [makedirs |-> "cp", cp |-> "chdir", chdir |-> "generate_input",
     generate_input |-> "generate_sh", generate_sh |-> "submit",
     submit |-> "restore", restore |-> "for"]

(* The template copy of the current job is in its job directory *)
CopySucceeded ==
    Append(Resolve(cwd, job_dir), basename(args.input)) \in DOMAIN files

(* Jobs are taken one at a time in ascending order, the steps of a job in the *)
(* order makedirs, cp, chdir, generate_input, generate_sh, submit, restore,   *)
(* and the next job starts only from the loop head, after the restore.        *)
StepsInOrder ==
    /\ (pc \in DOMAIN StepAfter /\ pc' # pc) =>
          pc' \in {StepAfter[pc], "raised"} /\ i' = i
    /\ (pc = "for" /\ pc' # pc) =>
          \/ pc' = "makedirs" /\ i' = i + 1 /\ i < args.njobs
          \/ pc' = "done" /\ i' = i /\ i = args.njobs
    /\ i' # i => pc = "for"
    /\ pc \in {"done", "raised"} => pc' = pc

(* C11: jobs are processed one at a time in ascending index order, each job's *)
(* steps in the order create directory, copy template, change directory,      *)
(* mutate seed, build script, submit, restore; a step is performed only if    *)
(* the previous step of that job succeeded (the directory is changed only     *)
(* after the template copy succeeded), and job i+1 starts after job i's       *)
(* restore.                                                                    *)
C11_StepsInOrderEachAfterSuccess ==
    [][/\ StepsInOrder
       /\ (pc = "chdir" /\ pc' = "generate_input") => CopySucceeded]_vars

(* C11, the part about the order alone, without the dependence on success *)
C11_OrderAlone == [][StepsInOrder]_vars

====
